---- MODULE Spec2Model ----
(***************************************************************************)
(* protoc-gen-go-grpc-mock: the plugin's main loop, fileToModel, the four  *)
(* method synthesizers and transformInput of main.go, as a state machine.  *)
(*                                                                         *)
(* Go strings that are only compared and concatenated (identifiers) are    *)
(* TLA+ strings; the path given to transformInput is a sequence of         *)
(* one-character strings, because it is split and rewritten per character. *)
(* Pointers to model.Interface are indices into heap.                      *)
(***************************************************************************)
EXTENDS Naturals, Sequences, FiniteSets, TLC

VARIABLES
    files,        \* plugin.FilesByPath: path -> protogen.File
    visited,      \* keys the range loop of main has already yielded
    cur,          \* the loop variables path/file of the current iteration
    pc,           \* position in main / fileToModel
    heap,         \* allocated model.Interface values, by reference
    pkg,          \* fileToModel's pkg: Name, PkgPath, Interfaces (references)
    si,           \* index of the service being ranged over (line 42)
    mi,           \* index of the method being ranged over (line 45)
    clientIface,  \* fileToModel's clientIface (reference, 0 = not yet set)
    serverIface,  \* fileToModel's serverIface (reference, 0 = not yet set)
    synth,        \* clientMethod, serverMethod, ifaces of the current switch case
    g,            \* the generator of the current iteration: filename, output
    rendered,     \* paths g.Generate has been invoked for
    genFiles,     \* files created through plugin.NewGeneratedFile, in order
    err,          \* the error returned from the Run callback (<<>> = nil)
    response,     \* the CodeGeneratorResponse handed to the host
    input,        \* transformInput's argument
    output        \* transformInput's result

vars == <<files, visited, cur, pc, heap, pkg, si, mi, clientIface, serverIface,
          synth, g, rendered, genFiles, err, response, input, output>>

(***************************************************************************)
(* Bounds of the model.                                                    *)
(***************************************************************************)
MaxServices == 2      \* services per file, fileToModel specification
MaxMethods == 2       \* methods per service, fileToModel specification
MaxFiles == 2         \* files per plugin request, main specification
MaxLen == 5           \* characters of a transformInput argument

(***************************************************************************)
(* mockgen's model package: Type variants, Parameter, Method, Interface.   *)
(***************************************************************************)
NamedType(p, t) == <<"NamedType", p, t>>
PointerType(t) == <<"PointerType", t>>
PredeclaredType(t) == <<"PredeclaredType", t>>

\* model.Parameter; an unnamed parameter has Name "".
Parameter(n, t) == [Name |-> n, Type |-> t]

\* model.Method; Variadic is <<>> for nil, <<p>> for a parameter p.
Method(n, in, out, variadic) ==
    [Name |-> n, In |-> in, Out |-> out, Variadic |-> variadic]

\* (*model.Interface).AddMethod of go.uber.org/mock: appends m unless the
\* interface already has a method of that name.
AddMethod(iface, m) ==
    IF \E i \in 1..Len(iface.Methods) : iface.Methods[i].Name = m.Name
    THEN iface
    ELSE [iface EXCEPT !.Methods = Append(@, m)]

(***************************************************************************)
(* getMethodType, lines 23-34.                                             *)
(***************************************************************************)
methodTypeUnary == "methodTypeUnary"
methodTypeClientStream == "methodTypeClientStream"
methodTypeServerStream == "methodTypeServerStream"
methodTypeBidirectionalStream == "methodTypeBidirectionalStream"

\* getMethodType with the two single-direction results exchanged
getMethodTypeSwapped(m) ==
    IF ~m.IsStreamingClient /\ ~m.IsStreamingServer THEN methodTypeUnary
    ELSE IF ~m.IsStreamingServer THEN methodTypeServerStream
    ELSE IF ~m.IsStreamingClient THEN methodTypeClientStream
    ELSE methodTypeBidirectionalStream

getMethodType(m) ==
    IF ~m.IsStreamingClient /\ ~m.IsStreamingServer THEN methodTypeUnary
    ELSE IF ~m.IsStreamingServer THEN methodTypeClientStream
    ELSE IF ~m.IsStreamingClient THEN methodTypeServerStream
    ELSE methodTypeBidirectionalStream

(***************************************************************************)
(* Shared parameter literals of the synthesizers.                          *)
(***************************************************************************)
ctxParam == Parameter("ctx", NamedType("context", "Context"))
optsParam == Parameter("opts", NamedType("google.golang.org/grpc", "CallOption"))
errorOut == Parameter("", PredeclaredType("error"))
\* the request parameter built from the response type
InputPtrFromOutput(m) == PointerType(NamedType(m.Output.GoImportPath, m.Output.GoName))
InputPtr(m) == PointerType(NamedType(m.Input.GoImportPath, m.Input.GoName))
OutputPtr(m) == PointerType(NamedType(m.Output.GoImportPath, m.Output.GoName))
MD == NamedType("google.golang.org/grpc/metadata", "MD")

\* baseClientStreamMethods, lines 288-334
baseClientStreamMethods ==
    << Method("Header", <<>>, <<Parameter("", MD), errorOut>>, <<>>),
       Method("Trailer", <<>>, <<Parameter("", MD)>>, <<>>),
       Method("CloseSend", <<>>, <<errorOut>>, <<>>),
       Method("Context", <<>>, <<Parameter("", NamedType("context", "Context"))>>, <<>>),
       Method("SendMsg", <<Parameter("arg0", PredeclaredType("interface{}"))>>,
              <<errorOut>>, <<>>),
       Method("RecvMsg", <<Parameter("arg0", PredeclaredType("interface{}"))>>,
              <<errorOut>>, <<>>) >>

\* the server base set without SetTrailer
baseServerStreamMethodsNoSetTrailer ==
    << Method("SetHeader", <<Parameter("", MD)>>, <<errorOut>>, <<>>),
       Method("SendHeader", <<Parameter("", MD)>>, <<errorOut>>, <<>>),
       Method("Context", <<>>, <<Parameter("", NamedType("context", "Context"))>>, <<>>),
       Method("SendMsg", <<Parameter("arg0", PredeclaredType("interface{}"))>>,
              <<errorOut>>, <<>>),
       Method("RecvMsg", <<Parameter("arg0", PredeclaredType("interface{}"))>>,
              <<errorOut>>, <<>>) >>

\* baseServerStreamMethods, lines 336-387
baseServerStreamMethods ==
    << Method("SetHeader", <<Parameter("", MD)>>, <<errorOut>>, <<>>),
       Method("SendHeader", <<Parameter("", MD)>>, <<errorOut>>, <<>>),
       Method("SetTrailer", <<Parameter("", MD)>>, <<>>, <<>>),
       Method("Context", <<>>, <<Parameter("", NamedType("context", "Context"))>>, <<>>),
       Method("SendMsg", <<Parameter("arg0", PredeclaredType("interface{}"))>>,
              <<errorOut>>, <<>>),
       Method("RecvMsg", <<Parameter("arg0", PredeclaredType("interface{}"))>>,
              <<errorOut>>, <<>>) >>

\* fmt.Sprintf("%s_%sClient", ...) and fmt.Sprintf("%s_%sServer", ...)
StreamClientName(m) == m.Parent \o "_" \o m.GoName \o "Client"
StreamServerName(m) == m.Parent \o "_" \o m.GoName \o "Server"

\* makeUnaryMethods, lines 74-99
makeUnaryMethods(m) ==
    [ clientMethod |-> Method(m.GoName,
                              <<ctxParam, Parameter("in", InputPtr(m))>>,
                              <<Parameter("", OutputPtr(m)), errorOut>>,
                              <<optsParam>>),
      serverMethod |-> Method(m.GoName,
                              <<ctxParam, Parameter("in", InputPtr(m))>>,
                              <<Parameter("", OutputPtr(m)), errorOut>>,
                              <<>>),
      ifaces |-> <<>> ]

\* makeServerStreamMethods, lines 101-152
makeServerStreamMethods(m) ==
    LET clientIfaceName == StreamClientName(m)
        serverIfaceName == StreamServerName(m)
        cIface0 == [Name |-> clientIfaceName, Methods |-> baseClientStreamMethods]
        cIface1 == AddMethod(cIface0,
                     Method("Recv", <<>>, <<Parameter("", OutputPtr(m)), errorOut>>, <<>>))
        sIface0 == [Name |-> serverIfaceName, Methods |-> baseServerStreamMethods]
        sIface1 == AddMethod(sIface0,
                     Method("Send", <<Parameter("", OutputPtr(m))>>, <<errorOut>>, <<>>))
    IN [ clientMethod |-> Method(m.GoName,
                                 <<ctxParam, Parameter("in", InputPtr(m))>>,
                                 <<Parameter("", NamedType("", clientIfaceName)), errorOut>>,
                                 <<optsParam>>),
         serverMethod |-> Method(m.GoName,
                                 <<Parameter("blob", InputPtr(m)),
                                   Parameter("server", NamedType("", serverIfaceName))>>,
                                 <<errorOut>>,
                                 <<>>),
         ifaces |-> <<cIface1, sIface1>> ]

\* makeClientStreamMethods, lines 154-219
makeClientStreamMethods(m) ==
    LET clientIfaceName == StreamClientName(m)
        serverIfaceName == StreamServerName(m)
        cIface0 == [Name |-> clientIfaceName, Methods |-> baseClientStreamMethods]
        cIface1 == AddMethod(cIface0,
                     Method("Send", <<Parameter("", InputPtr(m))>>, <<errorOut>>, <<>>))
        cIface2 == AddMethod(cIface1,
                     Method("CloseAndRecv", <<>>,
                            <<Parameter("", OutputPtr(m)), errorOut>>, <<>>))
        sIface0 == [Name |-> serverIfaceName, Methods |-> baseServerStreamMethods]
        sIface1 == AddMethod(sIface0,
                     Method("SendAndClose", <<Parameter("", InputPtr(m))>>,
                            <<errorOut>>, <<>>))
        sIface2 == AddMethod(sIface1,
                     Method("Recv", <<>>, <<Parameter("", OutputPtr(m)), errorOut>>, <<>>))
    IN [ clientMethod |-> Method(m.GoName,
                                 <<ctxParam>>,
                                 <<Parameter("", NamedType("", clientIfaceName)), errorOut>>,
                                 <<optsParam>>),
         serverMethod |-> Method(m.GoName,
                                 <<Parameter("server", NamedType("", serverIfaceName))>>,
                                 <<errorOut>>,
                                 <<>>),
         ifaces |-> <<cIface2, sIface2>> ]

\* makeBidirectionalStreamMethods, lines 221-286
makeBidirectionalStreamMethods(m) ==
    LET clientIfaceName == StreamClientName(m)
        serverIfaceName == StreamServerName(m)
        cIface0 == [Name |-> clientIfaceName, Methods |-> baseClientStreamMethods]
        cIface1 == AddMethod(cIface0,
                     Method("Send", <<Parameter("", InputPtr(m))>>, <<errorOut>>, <<>>))
        cIface2 == AddMethod(cIface1,
                     Method("Recv", <<>>, <<Parameter("", OutputPtr(m)), errorOut>>, <<>>))
        sIface0 == [Name |-> serverIfaceName, Methods |-> baseServerStreamMethods]
        sIface1 == AddMethod(sIface0,
                     Method("Send", <<Parameter("", InputPtr(m))>>, <<errorOut>>, <<>>))
        sIface2 == AddMethod(sIface1,
                     Method("Recv", <<>>, <<Parameter("", OutputPtr(m)), errorOut>>, <<>>))
    IN [ clientMethod |-> Method(m.GoName,
                                 <<ctxParam>>,
                                 <<Parameter("", NamedType("", clientIfaceName)), errorOut>>,
                                 <<optsParam>>),
         serverMethod |-> Method(m.GoName,
                                 <<Parameter("server", NamedType("", serverIfaceName))>>,
                                 <<errorOut>>,
                                 <<>>),
         ifaces |-> <<cIface2, sIface2>> ]

(***************************************************************************)
(* transformInput, lines 455-470, over sequences of characters.            *)
(***************************************************************************)
Suffix == <<"_", "g", "o", "_", "g", "r", "p", "c", "_", "m", "o", "c", "k",
            ".", "p", "b", ".", "g", "o">>

\* strings.Split(s, "/"): the segments between separators, at least one.
RECURSIVE Split(_)
Split(s) ==
    IF \A i \in 1..Len(s) : s[i] # "/"
    THEN <<s>>
    ELSE LET k == CHOOSE i \in 1..Len(s) :
                    s[i] = "/" /\ \A j \in 1..(i - 1) : s[j] # "/"
         IN <<SubSeq(s, 1, k - 1)>> \o Split(SubSeq(s, k + 1, Len(s)))

\* strings.Replace(s, "-", "_", 1): only the first hyphen
ReplaceFirst(s) ==
    [i \in 1..Len(s) |->
        IF s[i] = "-" /\ \A j \in 1..(i - 1) : s[j] # "-" THEN "_" ELSE s[i]]

\* strings.ReplaceAll(s, "-", "_")
ReplaceAll(s) == [i \in 1..Len(s) |-> IF s[i] = "-" THEN "_" ELSE s[i]]

\* strings.Join(parts, "/")
RECURSIVE Join(_)
Join(parts) ==
    IF Len(parts) = 0 THEN <<>>
    ELSE IF Len(parts) = 1 THEN parts[1]
    ELSE parts[1] \o <<"/">> \o Join(Tail(parts))

transformInput(s) ==
    LET parts == Split(s)
        serviceName == ReplaceAll(parts[Len(parts)]) \o Suffix
        parts2 == [parts EXCEPT ![Len(parts)] = serviceName]
    IN Join(parts2)

(***************************************************************************)
(* The descriptors the plugin consumes (protogen.File, Service, Method).   *)
(* Descriptors are well formed: the GoNames of a service's methods are     *)
(* pairwise distinct, and so are the GoNames of a file's services.         *)
(***************************************************************************)
ServiceNames == {"A", "A_B"}
MethodNames == {"B", "C"}
ReqType == [GoImportPath |-> "example.com/pb", GoName |-> "Req"]
RespType == [GoImportPath |-> "example.com/pb", GoName |-> "Resp"]
MsgTypes == {ReqType, RespType}

SeqsUpTo(S, n) == UNION {[1..k -> S] : k \in 0..n}
InjSeqsUpTo(S, n) == {q \in SeqsUpTo(S, n) :
                        \A i, j \in 1..Len(q) : i # j => q[i] # q[j]}

\* a method's part that does not depend on its service
MethodBodies(names, ins, outs) ==
    [GoName : names, Input : ins, Output : outs,
     IsStreamingClient : BOOLEAN, IsStreamingServer : BOOLEAN]

MethodLists(names, ins, outs, n) ==
    {q \in SeqsUpTo(MethodBodies(names, ins, outs), n) :
        \A i, j \in 1..Len(q) : i # j => q[i].GoName # q[j].GoName}

\* protogen.Service with its methods' Parent set to it
ServiceOf(name, bodies) ==
    [GoName |-> name,
     Methods |-> [i \in 1..Len(bodies) |->
                    [GoName |-> bodies[i].GoName, Parent |-> name,
                     Input |-> bodies[i].Input, Output |-> bodies[i].Output,
                     IsStreamingClient |-> bodies[i].IsStreamingClient,
                     IsStreamingServer |-> bodies[i].IsStreamingServer]]]

ServiceLists(snames, mnames, ins, outs) ==
    UNION { { [i \in 1..Len(ns) |-> ServiceOf(ns[i], ms[i])] :
                ms \in [1..Len(ns) -> MethodLists(mnames, ins, outs, MaxMethods)] } :
            ns \in InjSeqsUpTo(snames, MaxServices) }

FileOf(gen, prefix, services) ==
    [Generate |-> gen, GoPackageName |-> "pb", GoImportPath |-> "example.com/pb",
     GeneratedFilenamePrefix |-> prefix, Services |-> services]

\* keys of plugin.FilesByPath and the GeneratedFilenamePrefix of each
AllPaths == <<"a-b/c-d.proto", "x.proto", "y/z.proto">>
Paths == {AllPaths[i] : i \in {k \in 1..Len(AllPaths) : k <= MaxFiles}}
PrefixOf(path) ==
    CASE path = "a-b/c-d.proto" -> <<"a", "-", "b", "/", "c", "-", "d">>
      [] path = "x.proto" -> <<"x">>
      [] OTHER -> <<"y", "/", "z">>

NoSynth == [clientMethod |-> <<>>, serverMethod |-> <<>>, ifaces |-> <<>>]
NoGenerator == [filename |-> "", output |-> <<>>]
NoPackage == [Name |-> "", PkgPath |-> "", Interfaces |-> <<>>]
NoResponse == [Error |-> <<>>, File |-> <<>>]

file == files[cur]
\* the values the references of a package point to
Deref(refs) == [i \in 1..Len(refs) |-> heap[refs[i]]]
\* the package as the renderer reads it
PkgValue == [Name |-> pkg.Name, PkgPath |-> pkg.PkgPath,
             Interfaces |-> Deref(pkg.Interfaces)]

(***************************************************************************)
(* fileToModel, lines 36-72, one action per statement group.               *)
(***************************************************************************)
mainVars == <<files, visited, cur, g, rendered, genFiles, err, response>>
pathVars == <<input, output>>

\* NewPackage that keeps the interfaces of the package built before
NewPackageStale ==
    /\ pc = "fileToModel"
    /\ pkg' = [Name |-> file.GoPackageName, PkgPath |-> file.GoImportPath,
               Interfaces |-> pkg.Interfaces]
    /\ si' = 1
    /\ pc' = "services"
    /\ UNCHANGED <<heap, mi, clientIface, serverIface, synth, mainVars, pathVars>>

\* lines 37-40: pkg := &model.Package{...}
NewPackage ==
    /\ pc = "fileToModel"
    /\ pkg' = [Name |-> file.GoPackageName, PkgPath |-> file.GoImportPath,
               Interfaces |-> <<>>]
    /\ si' = 1
    /\ pc' = "services"
    /\ UNCHANGED <<heap, mi, clientIface, serverIface, synth, mainVars, pathVars>>

\* BeginService that appends the stub interfaces to the package at once
BeginServiceAppendEarly ==
    /\ pc = "services"
    /\ si <= Len(file.Services)
    /\ LET s == file.Services[si]
       IN heap' = heap \o << [Name |-> s.GoName \o "Client", Methods |-> <<>>],
                             [Name |-> s.GoName \o "Server", Methods |-> <<>>] >>
    /\ clientIface' = Len(heap) + 1
    /\ serverIface' = Len(heap) + 2
    /\ pkg' = [pkg EXCEPT !.Interfaces = @ \o <<Len(heap) + 1, Len(heap) + 2>>]
    /\ mi' = 1
    /\ pc' = "methods"
    /\ UNCHANGED <<si, synth, mainVars, pathVars>>

\* lines 42-44: next service, its two stub interfaces are allocated
BeginService ==
    /\ pc = "services"
    /\ si <= Len(file.Services)
    /\ LET s == file.Services[si]
       IN heap' = heap \o << [Name |-> s.GoName \o "Client", Methods |-> <<>>],
                             [Name |-> s.GoName \o "Server", Methods |-> <<>>] >>
    /\ clientIface' = Len(heap) + 1
    /\ serverIface' = Len(heap) + 2
    /\ mi' = 1
    /\ pc' = "methods"
    /\ UNCHANGED <<pkg, si, synth, mainVars, pathVars>>

\* the method the inner loop is at (line 45)
curMethod == file.Services[si].Methods[mi]
AtMethod == /\ pc = "methods"
            /\ mi <= Len(file.Services[si].Methods)

\* pkg.Interfaces = append(pkg.Interfaces, ifaces...): the new interfaces
\* are allocated and their references appended
AppendIfaces(ifaces) ==
    /\ heap' = heap \o ifaces
    /\ pkg' = [pkg EXCEPT !.Interfaces =
                 @ \o [i \in 1..Len(ifaces) |-> Len(heap) + i]]

\* lines 47-48
CaseUnary ==
    /\ AtMethod
    /\ getMethodType(curMethod) = methodTypeUnary
    /\ synth' = makeUnaryMethods(curMethod)
    /\ pc' = "add_client"
    /\ UNCHANGED <<heap, pkg, si, mi, clientIface, serverIface, mainVars, pathVars>>

\* lines 51-53
CaseServerStream ==
    /\ AtMethod
    /\ getMethodType(curMethod) = methodTypeServerStream
    /\ synth' = makeServerStreamMethods(curMethod)
    /\ AppendIfaces(synth'.ifaces)
    /\ pc' = "add_client"
    /\ UNCHANGED <<si, mi, clientIface, serverIface, mainVars, pathVars>>

\* lines 56-58
CaseClientStream ==
    /\ AtMethod
    /\ getMethodType(curMethod) = methodTypeClientStream
    /\ synth' = makeClientStreamMethods(curMethod)
    /\ AppendIfaces(synth'.ifaces)
    /\ pc' = "add_client"
    /\ UNCHANGED <<si, mi, clientIface, serverIface, mainVars, pathVars>>

\* lines 61-63
CaseBidirectionalStream ==
    /\ AtMethod
    /\ getMethodType(curMethod) = methodTypeBidirectionalStream
    /\ synth' = makeBidirectionalStreamMethods(curMethod)
    /\ AppendIfaces(synth'.ifaces)
    /\ pc' = "add_client"
    /\ UNCHANGED <<si, mi, clientIface, serverIface, mainVars, pathVars>>

\* lines 49, 54, 59, 64: clientIface.AddMethod(clientMethod)
AddClientMethod ==
    /\ pc = "add_client"
    /\ heap' = [heap EXCEPT ![clientIface] = AddMethod(@, synth.clientMethod)]
    /\ pc' = "add_server"
    /\ UNCHANGED <<pkg, si, mi, clientIface, serverIface, synth, mainVars, pathVars>>

\* lines 50, 55, 60, 65: serverIface.AddMethod(serverMethod), then the next method
AddServerMethod ==
    /\ pc = "add_server"
    /\ heap' = [heap EXCEPT ![serverIface] = AddMethod(@, synth.serverMethod)]
    /\ mi' = mi + 1
    /\ synth' = NoSynth
    /\ pc' = "methods"
    /\ UNCHANGED <<pkg, si, clientIface, serverIface, mainVars, pathVars>>

\* EndService that appends the server interface before the client interface
EndServiceServerFirst ==
    /\ pc = "methods"
    /\ mi > Len(file.Services[si].Methods)
    /\ pkg' = [pkg EXCEPT !.Interfaces = @ \o <<serverIface, clientIface>>]
    /\ si' = si + 1
    /\ clientIface' = 0
    /\ serverIface' = 0
    /\ pc' = "services"
    /\ UNCHANGED <<heap, mi, synth, mainVars, pathVars>>

\* line 68: pkg.Interfaces = append(pkg.Interfaces, clientIface, serverIface)
EndService ==
    /\ pc = "methods"
    /\ mi > Len(file.Services[si].Methods)
    /\ pkg' = [pkg EXCEPT !.Interfaces = @ \o <<clientIface, serverIface>>]
    /\ si' = si + 1
    /\ clientIface' = 0
    /\ serverIface' = 0
    /\ pc' = "services"
    /\ UNCHANGED <<heap, mi, synth, mainVars, pathVars>>

\* line 71: return pkg, to line 432 of main
ReturnPkg ==
    /\ pc = "services"
    /\ si > Len(file.Services)
    /\ pc' = "check_len"
    /\ UNCHANGED <<heap, pkg, si, mi, clientIface, serverIface, synth, mainVars, pathVars>>

NextFile ==
    \/ NewPackage
    \/ BeginService
    \/ CaseUnary
    \/ CaseServerStream
    \/ CaseClientStream
    \/ CaseBidirectionalStream
    \/ AddClientMethod
    \/ AddServerMethod
    \/ EndService
    \/ ReturnPkg

InitCommon ==
    /\ heap = <<>>
    /\ pkg = NoPackage
    /\ si = 0
    /\ mi = 0
    /\ clientIface = 0
    /\ serverIface = 0
    /\ synth = NoSynth
    /\ g = NoGenerator
    /\ rendered = {}
    /\ genFiles = <<>>
    /\ err = <<>>
    /\ response = NoResponse

\* fileToModel called on one file, of any shape within the bounds
InitFile ==
    /\ InitCommon
    /\ files \in {[p \in {"x.proto"} |-> FileOf(TRUE, PrefixOf(p), sl)] :
                    sl \in ServiceLists(ServiceNames, MethodNames, {ReqType}, {RespType})}
    /\ visited = {"x.proto"}
    /\ cur = "x.proto"
    /\ pc = "fileToModel"
    /\ input = <<>>
    /\ output = <<>>

SpecFile == InitFile /\ [][NextFile]_vars

\* fileToModel called on a file of one service with one method, of any
\* request and response type
InitSynth ==
    /\ InitCommon
    /\ files \in {[p \in {"x.proto"} |-> FileOf(TRUE, PrefixOf(p), <<ServiceOf(sn, <<b>>)>>)] :
                    sn \in ServiceNames,
                    b \in MethodBodies(MethodNames, MsgTypes, MsgTypes)}
    /\ visited = {"x.proto"}
    /\ cur = "x.proto"
    /\ pc = "fileToModel"
    /\ input = <<>>
    /\ output = <<>>

SpecSynth == InitSynth /\ [][NextFile]_vars

(***************************************************************************)
(* main, lines 423-452: the callback given to protogen's Run.              *)
(***************************************************************************)
fileVars == <<heap, pkg, si, mi, clientIface, serverIface, synth>>

\* line 427: the range over the map yields the remaining keys in any order
RangeNext ==
    /\ pc = "range"
    /\ \E p \in DOMAIN files \ visited :
         /\ cur' = p
         /\ visited' = visited \cup {p}
    /\ pc' = "check_generate"
    /\ UNCHANGED <<files, g, rendered, genFiles, err, response, fileVars, pathVars>>

\* line 451: the range is exhausted, return nil
RangeDone ==
    /\ pc = "range"
    /\ visited = DOMAIN files
    /\ pc' = "run_return"
    /\ UNCHANGED <<mainVars, fileVars, pathVars>>

\* lines 428-430: if !file.Generate { continue }
SkipNotGenerate ==
    /\ pc = "check_generate"
    /\ ~file.Generate
    /\ pc' = "range"
    /\ UNCHANGED <<mainVars, fileVars, pathVars>>

\* line 431: pkg := fileToModel(file)
CallFileToModel ==
    /\ pc = "check_generate"
    /\ file.Generate
    /\ pc' = "fileToModel"
    /\ UNCHANGED <<mainVars, fileVars, pathVars>>

\* lines 432-434: if len(pkg.Interfaces) == 0 { continue }
SkipEmpty ==
    /\ pc = "check_len"
    /\ Len(pkg.Interfaces) = 0
    /\ pc' = "range"
    /\ UNCHANGED <<mainVars, fileVars, pathVars>>

\* NewGenerator without the check of lines 432-434
NewGeneratorUnguarded ==
    /\ pc = "check_len"
    /\ g' = [filename |-> cur, output |-> <<>>]
    /\ pc' = "generate"
    /\ UNCHANGED <<files, visited, cur, rendered, genFiles, err, response,
                   fileVars, pathVars>>

\* lines 436-437: g := new(generator); g.filename = path
NewGenerator ==
    /\ pc = "check_len"
    /\ Len(pkg.Interfaces) # 0
    /\ g' = [filename |-> cur, output |-> <<>>]
    /\ pc' = "generate"
    /\ UNCHANGED <<files, visited, cur, rendered, genFiles, err, response,
                   fileVars, pathVars>>

\* the renderer's output for a package: a function of the package alone
Render(p, pkgName, importPath) == <<p, pkgName, importPath>>

\* line 439, g.Generate returns nil: the output is buffered in g
GenerateOk ==
    /\ pc = "generate"
    /\ rendered' = rendered \cup {[path |-> cur, ok |-> TRUE]}
    /\ g' = [g EXCEPT !.output = Render(PkgValue, file.GoPackageName, file.GoImportPath)]
    /\ pc' = "write"
    /\ UNCHANGED <<files, visited, cur, genFiles, err, response, fileVars, pathVars>>

\* GenerateFail that goes on with the next file instead of returning
GenerateFailContinue ==
    /\ pc = "generate"
    /\ rendered' = rendered \cup {[path |-> cur, ok |-> FALSE]}
    /\ pc' = "range"
    /\ UNCHANGED <<files, visited, cur, g, genFiles, err, response, fileVars, pathVars>>

\* lines 439-441, g.Generate returns an error: return err
GenerateFail ==
    /\ pc = "generate"
    /\ rendered' = rendered \cup {[path |-> cur, ok |-> FALSE]}
    /\ err' = <<[renderOf |-> cur]>>
    /\ pc' = "run_return"
    /\ UNCHANGED <<files, visited, cur, g, genFiles, response, fileVars, pathVars>>

\* lines 442-449: plugin.NewGeneratedFile(transformInput(prefix), importPath)
\* and Write(g.Output()); writing to the file's buffer returns no error
WriteFile ==
    /\ pc = "write"
    /\ genFiles' = Append(genFiles,
                          [name |-> transformInput(file.GeneratedFilenamePrefix),
                           importPath |-> file.GoImportPath,
                           content |-> g.output])
    /\ pc' = "range"
    /\ UNCHANGED <<files, visited, cur, g, rendered, err, response, fileVars, pathVars>>

\* protogen's Run after the callback returned: the response carries the
\* error and no file, or the generated files
Response ==
    /\ pc = "run_return"
    /\ response' = IF err # <<>> THEN [Error |-> err, File |-> <<>>]
                                 ELSE [Error |-> <<>>, File |-> genFiles]
    /\ pc' = "done"
    /\ UNCHANGED <<files, visited, cur, g, rendered, genFiles, err, fileVars, pathVars>>

NextMain ==
    \/ RangeNext
    \/ RangeDone
    \/ SkipNotGenerate
    \/ CallFileToModel
    \/ SkipEmpty
    \/ NewGenerator
    \/ GenerateOk
    \/ GenerateFail
    \/ WriteFile
    \/ Response

Next == NextMain \/ NextFile

\* files of at most one service "A" with at most one method "B"
MainChoices == [gen : BOOLEAN,
                sl : ServiceLists({"A"}, {"B"}, {ReqType}, {RespType})]

Init ==
    /\ InitCommon
    /\ files \in UNION { {[p \in S |-> FileOf(c[p].gen, PrefixOf(p), c[p].sl)] :
                            c \in [S -> MainChoices]} : S \in SUBSET Paths }
    /\ visited = {}
    /\ cur = ""
    /\ pc = "range"
    /\ input = <<>>
    /\ output = <<>>

Spec == Init /\ [][Next]_vars

(***************************************************************************)
(* transformInput applied to any path over a small alphabet.               *)
(***************************************************************************)
Alphabet == {"a", "-", "_", "/"}

TransformInput ==
    /\ pc = "transformInput"
    /\ output' = transformInput(input)
    /\ pc' = "transformed"
    /\ UNCHANGED <<mainVars, fileVars, input>>

InitPath ==
    /\ InitCommon
    /\ files = <<>>
    /\ visited = {}
    /\ cur = ""
    /\ pc = "transformInput"
    /\ input \in SeqsUpTo(Alphabet, MaxLen)
    /\ output = <<>>

SpecPath == InitPath /\ [][TransformInput]_vars

(***************************************************************************)
(* Properties of the synthesizers, under SpecSynth.                        *)
(***************************************************************************)
\* a method's signature: its name and the types of its parameters
TypesOf(ps) == [i \in 1..Len(ps) |-> ps[i].Type]
Sig(md) == [Name |-> md.Name, In |-> TypesOf(md.In), Out |-> TypesOf(md.Out),
            Variadic |-> TypesOf(md.Variadic)]
S(n, in, out) == [Name |-> n, In |-> in, Out |-> out, Variadic |-> <<>>]
SigSet(iface) == {Sig(iface.Methods[i]) : i \in 1..Len(iface.Methods)}

ContextT == NamedType("context", "Context")
CallOptionT == NamedType("google.golang.org/grpc", "CallOption")
MetadataT == NamedType("google.golang.org/grpc/metadata", "MD")
ErrorT == PredeclaredType("error")
AnyT == PredeclaredType("interface{}")
InT(m) == PointerType(NamedType(m.Input.GoImportPath, m.Input.GoName))
OutT(m) == PointerType(NamedType(m.Output.GoImportPath, m.Output.GoName))
ClientHandleName(m) == m.Parent \o "_" \o m.GoName \o "Client"
ServerHandleName(m) == m.Parent \o "_" \o m.GoName \o "Server"
ClientHandleT(m) == NamedType("", ClientHandleName(m))
ServerHandleT(m) == NamedType("", ServerHandleName(m))

\* the truth table of section 4.1
TableShape(m) ==
    CASE ~m.IsStreamingClient /\ ~m.IsStreamingServer -> "Unary"
      [] m.IsStreamingClient /\ ~m.IsStreamingServer -> "ClientStreaming"
      [] ~m.IsStreamingClient /\ m.IsStreamingServer -> "ServerStreaming"
      [] m.IsStreamingClient /\ m.IsStreamingServer -> "Bidirectional"

\* a switch case of fileToModel has produced its result for the current method
Synthesized == pc \in {"add_client", "add_server"}

\* C4: getMethodType follows the truth table (false,false) -> Unary,
\* (true,false) -> ClientStreaming, (false,true) -> ServerStreaming,
\* (true,true) -> Bidirectional, and the switch of fileToModel hands each
\* shape to the synthesizer of that shape.
C4_TruthTableAndDispatch ==
    Synthesized =>
        LET m == curMethod
        IN /\ getMethodType(m) =
                (CASE TableShape(m) = "Unary" -> methodTypeUnary
                   [] TableShape(m) = "ClientStreaming" -> methodTypeClientStream
                   [] TableShape(m) = "ServerStreaming" -> methodTypeServerStream
                   [] TableShape(m) = "Bidirectional" -> methodTypeBidirectionalStream)
           /\ synth =
                (CASE TableShape(m) = "Unary" -> makeUnaryMethods(m)
                   [] TableShape(m) = "ClientStreaming" -> makeClientStreamMethods(m)
                   [] TableShape(m) = "ServerStreaming" -> makeServerStreamMethods(m)
                   [] TableShape(m) = "Bidirectional" -> makeBidirectionalStreamMethods(m))

C4_Witness ==
    /\ pc = "add_client"
    /\ curMethod.IsStreamingClient
    /\ ~curMethod.IsStreamingServer
    /\ Len(synth.ifaces) = 2

\* C3: the client and server stub signatures of a method are those of its
\* shape, parameters in order, and the handle types are the names of the two
\* auxiliary interfaces produced for the same method.
C3_StubSignatures ==
    Synthesized =>
        LET m == curMethod
            c == Sig(synth.clientMethod)
            sv == Sig(synth.serverMethod)
            handles == /\ Len(synth.ifaces) = 2
                       /\ synth.ifaces[1].Name = ClientHandleName(m)
                       /\ synth.ifaces[2].Name = ServerHandleName(m)
        IN CASE TableShape(m) = "Unary" ->
                  /\ c = [Name |-> m.GoName, In |-> <<ContextT, InT(m)>>,
                          Out |-> <<OutT(m), ErrorT>>, Variadic |-> <<CallOptionT>>]
                  /\ sv = [Name |-> m.GoName, In |-> <<ContextT, InT(m)>>,
                           Out |-> <<OutT(m), ErrorT>>, Variadic |-> <<>>]
                  /\ synth.ifaces = <<>>
             [] TableShape(m) = "ServerStreaming" ->
                  /\ c = [Name |-> m.GoName, In |-> <<ContextT, InT(m)>>,
                          Out |-> <<ClientHandleT(m), ErrorT>>,
                          Variadic |-> <<CallOptionT>>]
                  /\ sv = [Name |-> m.GoName, In |-> <<InT(m), ServerHandleT(m)>>,
                           Out |-> <<ErrorT>>, Variadic |-> <<>>]
                  /\ handles
             [] TableShape(m) \in {"ClientStreaming", "Bidirectional"} ->
                  /\ c = [Name |-> m.GoName, In |-> <<ContextT>>,
                          Out |-> <<ClientHandleT(m), ErrorT>>,
                          Variadic |-> <<CallOptionT>>]
                  /\ sv = [Name |-> m.GoName, In |-> <<ServerHandleT(m)>>,
                           Out |-> <<ErrorT>>, Variadic |-> <<>>]
                  /\ handles

C3_Witness ==
    /\ pc = "add_server"
    /\ TableShape(curMethod) = "ServerStreaming"
    /\ curMethod.Input # curMethod.Output
    /\ Len(synth.serverMethod.In) = 2

\* the base sets and the extra methods of section 4.2
ClientBaseSigs ==
    { S("Header", <<>>, <<MetadataT, ErrorT>>), S("Trailer", <<>>, <<MetadataT>>),
      S("CloseSend", <<>>, <<ErrorT>>), S("Context", <<>>, <<ContextT>>),
      S("SendMsg", <<AnyT>>, <<ErrorT>>), S("RecvMsg", <<AnyT>>, <<ErrorT>>) }
ServerBaseSigs ==
    { S("SetHeader", <<MetadataT>>, <<ErrorT>>), S("SendHeader", <<MetadataT>>, <<ErrorT>>),
      S("SetTrailer", <<MetadataT>>, <<>>), S("Context", <<>>, <<ContextT>>),
      S("SendMsg", <<AnyT>>, <<ErrorT>>), S("RecvMsg", <<AnyT>>, <<ErrorT>>) }
ClientExtraSigs(m) ==
    CASE TableShape(m) = "ServerStreaming" ->
           { S("Recv", <<>>, <<OutT(m), ErrorT>>) }
      [] TableShape(m) = "ClientStreaming" ->
           { S("Send", <<InT(m)>>, <<ErrorT>>),
             S("CloseAndRecv", <<>>, <<OutT(m), ErrorT>>) }
      [] TableShape(m) = "Bidirectional" ->
           { S("Send", <<InT(m)>>, <<ErrorT>>), S("Recv", <<>>, <<OutT(m), ErrorT>>) }
ServerExtraSigs(m) ==
    CASE TableShape(m) = "ServerStreaming" ->
           { S("Send", <<OutT(m)>>, <<ErrorT>>) }
      [] TableShape(m) = "ClientStreaming" ->
           { S("Recv", <<>>, <<OutT(m), ErrorT>>),
             S("SendAndClose", <<InT(m)>>, <<ErrorT>>) }
      [] TableShape(m) = "Bidirectional" ->
           { S("Send", <<InT(m)>>, <<ErrorT>>), S("Recv", <<>>, <<OutT(m), ErrorT>>) }

\* C2: a non-unary method yields exactly two auxiliary interfaces, the client
\* handle then the server handle, and the method set of each is the base set
\* of its side united with the extra methods of the shape, each method once.
C2_HandleMethodSets ==
    (Synthesized /\ TableShape(curMethod) # "Unary") =>
        LET m == curMethod
        IN /\ Len(synth.ifaces) = 2
           /\ synth.ifaces[1].Name = ClientHandleName(m)
           /\ synth.ifaces[2].Name = ServerHandleName(m)
           /\ SigSet(synth.ifaces[1]) = ClientBaseSigs \cup ClientExtraSigs(m)
           /\ SigSet(synth.ifaces[2]) = ServerBaseSigs \cup ServerExtraSigs(m)
           /\ Len(synth.ifaces[1].Methods) = Cardinality(SigSet(synth.ifaces[1]))
           /\ Len(synth.ifaces[2].Methods) = Cardinality(SigSet(synth.ifaces[2]))

C2_Witness ==
    /\ pc = "add_client"
    /\ TableShape(curMethod) = "ClientStreaming"
    /\ curMethod.Input # curMethod.Output
    /\ Len(synth.ifaces[1].Methods) = 8
    /\ Len(synth.ifaces[2].Methods) = 8

(***************************************************************************)
(* Properties of fileToModel, under SpecFile.                              *)
(***************************************************************************)
RECURSIVE Flatten(_)
Flatten(qs) == IF Len(qs) = 0 THEN <<>> ELSE Head(qs) \o Flatten(Tail(qs))

\* fileToModel has returned the package of the current file
Returned == pc = "check_len"

InterfaceNames == [i \in 1..Len(pkg.Interfaces) |-> heap[pkg.Interfaces[i]].Name]
MethodNamesOf(iface) == [i \in 1..Len(iface.Methods) |-> iface.Methods[i].Name]

\* the interface names section 4.4 prescribes for a service
HandleNamesOf(m) ==
    IF TableShape(m) = "Unary" THEN <<>>
    ELSE <<m.Parent \o "_" \o m.GoName \o "Client", m.Parent \o "_" \o m.GoName \o "Server">>
NamesOfService(s) ==
    Flatten([i \in 1..Len(s.Methods) |-> HandleNamesOf(s.Methods[i])])
        \o <<s.GoName \o "Client", s.GoName \o "Server">>
NamesOfServices(ss) == Flatten([i \in 1..Len(ss) |-> NamesOfService(ss[i])])

\* C1: the package's interface list is, service by service in declaration
\* order, the handle pairs of the non-unary methods in declaration order
\* followed by the Client and the Server interface, and these two list one
\* method per declared method, named after it, in declaration order.
C1_InterfaceOrder ==
    Returned =>
        /\ InterfaceNames = NamesOfServices(file.Services)
        /\ \A k \in 1..Len(file.Services) :
             LET s == file.Services[k]
                 last == Len(NamesOfServices(SubSeq(file.Services, 1, k)))
                 declared == [i \in 1..Len(s.Methods) |-> s.Methods[i].GoName]
             IN /\ MethodNamesOf(heap[pkg.Interfaces[last - 1]]) = declared
                /\ MethodNamesOf(heap[pkg.Interfaces[last]]) = declared

C1_Witness ==
    /\ Returned
    /\ Len(file.Services) = 2
    /\ Len(file.Services[1].Methods) = 2
    /\ TableShape(file.Services[1].Methods[1]) = "Unary"
    /\ TableShape(file.Services[1].Methods[2]) = "Bidirectional"
    /\ Len(file.Services[2].Methods) = 1
    /\ TableShape(file.Services[2].Methods[1]) = "ServerStreaming"
    /\ Len(pkg.Interfaces) = 8

WellFormed(f) ==
    /\ \A i, j \in 1..Len(f.Services) :
         i # j => f.Services[i].GoName # f.Services[j].GoName
    /\ \A k \in 1..Len(f.Services) :
         \A i, j \in 1..Len(f.Services[k].Methods) :
            i # j => f.Services[k].Methods[i].GoName # f.Services[k].Methods[j].GoName

\* C5: in the package of a file whose service names are pairwise distinct and
\* whose method names are pairwise distinct within each service, no two
\* interfaces have the same name.
C5_UniqueInterfaceNames ==
    (Returned /\ WellFormed(file)) =>
        \A i, j \in 1..Len(pkg.Interfaces) :
            i # j => InterfaceNames[i] # InterfaceNames[j]

\* C10: an interface in the package's list is never changed afterwards, the
\* list only grows at its end, and the Client and Server interfaces hold all
\* their methods when they are appended.
C10_NoMutationAfterAppend ==
    [][ /\ Len(pkg'.Interfaces) >= Len(pkg.Interfaces)
        /\ \A i \in 1..Len(pkg.Interfaces) :
             /\ pkg'.Interfaces[i] = pkg.Interfaces[i]
             /\ heap'[pkg.Interfaces[i]] = heap[pkg.Interfaces[i]]
        /\ (pc = "methods" /\ pc' = "services") =>
             /\ Len(heap[clientIface].Methods) = Len(file.Services[si].Methods)
             /\ Len(heap[serverIface].Methods) = Len(file.Services[si].Methods)
      ]_vars

C10_Witness ==
    /\ pc = "add_server"
    /\ Len(pkg.Interfaces) >= 4
    /\ Len(heap[clientIface].Methods) = 2
    /\ si = 2

(***************************************************************************)
(* Properties of the plugin run, under Spec.                               *)
(***************************************************************************)
\* the name of the output file of the file at path p
OutputNameOf(p) == transformInput(PrefixOf(p))
RenderedPaths == {r.path : r \in rendered}
HasOutput(fs, p) == \E i \in 1..Len(fs) : fs[i].name = OutputNameOf(p)
\* every service of the file has zero methods (so also: no service at all)
NoMethods(f) == \A k \in 1..Len(f.Services) : Len(f.Services[k].Methods) = 0
AtCheckLen(p) == pc = "check_len" /\ cur = p

\* C6 as stated: a file with zero services, or whose services all have zero
\* methods, yields a package with zero interfaces, and is neither rendered
\* nor given an output file.
C6_Original ==
    \A p \in DOMAIN files :
        NoMethods(files[p]) =>
            /\ AtCheckLen(p) => Len(pkg.Interfaces) = 0
            /\ p \notin RenderedPaths
            /\ ~HasOutput(genFiles, p)
            /\ ~HasOutput(response.File, p)

\* C6, amended: a file with zero services yields a package with zero
\* interfaces and is neither rendered nor given an output file; a file with
\* services that all have zero methods yields the empty Client and Server
\* interface of each service, and a run without error renders it and gives it
\* an output file when its generate flag is set.
C6_EmptyFiles ==
    \A p \in DOMAIN files :
        /\ files[p].Services = <<>> =>
             /\ AtCheckLen(p) => Len(pkg.Interfaces) = 0
             /\ p \notin RenderedPaths
             /\ ~HasOutput(genFiles, p)
             /\ ~HasOutput(response.File, p)
        /\ (NoMethods(files[p]) /\ AtCheckLen(p)) =>
             /\ Len(pkg.Interfaces) = 2 * Len(files[p].Services)
             /\ \A i \in 1..Len(pkg.Interfaces) :
                  heap[pkg.Interfaces[i]].Methods = <<>>
        /\ (NoMethods(files[p]) /\ files[p].Services # <<>> /\ files[p].Generate
                /\ pc = "done" /\ err = <<>>) =>
             /\ p \in RenderedPaths
             /\ HasOutput(response.File, p)

C6_Witness ==
    /\ pc = "done"
    /\ err = <<>>
    /\ \E p \in DOMAIN files : files[p].Generate /\ files[p].Services = <<>>
    /\ \E p \in DOMAIN files :
         /\ files[p].Generate
         /\ files[p].Services # <<>>
         /\ NoMethods(files[p])
         /\ HasOutput(response.File, p)

\* C7: when the renderer fails for a file, the run stops at that file with
\* the error, and the response names the error and holds no file, also none
\* of the files written before the failing one.
C7_RenderFailureAborts ==
    \A r \in rendered :
        ~r.ok =>
            /\ err # <<>>
            /\ cur = r.path
            /\ pc \in {"run_return", "done"}
            /\ ~HasOutput(genFiles, r.path)
            /\ pc = "done" => (response.Error # <<>> /\ response.File = <<>>)

C7_Witness ==
    /\ pc = "done"
    /\ \E r \in rendered : ~r.ok
    /\ Len(genFiles) = 1
    /\ response.File = <<>>

\* what a file's package is, as a function of the file alone
SynthOf(m) ==
    CASE TableShape(m) = "Unary" -> makeUnaryMethods(m)
      [] TableShape(m) = "ClientStreaming" -> makeClientStreamMethods(m)
      [] TableShape(m) = "ServerStreaming" -> makeServerStreamMethods(m)
      [] TableShape(m) = "Bidirectional" -> makeBidirectionalStreamMethods(m)
InterfacesOfService(s) ==
    Flatten([i \in 1..Len(s.Methods) |-> SynthOf(s.Methods[i]).ifaces])
        \o << [Name |-> s.GoName \o "Client",
               Methods |-> [i \in 1..Len(s.Methods) |-> SynthOf(s.Methods[i]).clientMethod]],
              [Name |-> s.GoName \o "Server",
               Methods |-> [i \in 1..Len(s.Methods) |-> SynthOf(s.Methods[i]).serverMethod]] >>
InterfacesOfFile(f) ==
    Flatten([k \in 1..Len(f.Services) |-> InterfacesOfService(f.Services[k])])
OutputOf(p) ==
    [name |-> OutputNameOf(p),
     importPath |-> files[p].GoImportPath,
     content |-> Render([Name |-> files[p].GoPackageName,
                         PkgPath |-> files[p].GoImportPath,
                         Interfaces |-> InterfacesOfFile(files[p])],
                        files[p].GoPackageName, files[p].GoImportPath)]
Eligible == {p \in DOMAIN files :
                files[p].Generate /\ InterfacesOfFile(files[p]) # <<>>}

\* C9: whatever the order in which the loop visits the files, when the
\* renderer never fails each file's package is the one its own services
\* determine, and the emitted files are exactly one per file with the generate
\* flag set and at least one interface; the other files are never rendered.
C9_OrderIndependent ==
    /\ Returned => PkgValue.Interfaces = InterfacesOfFile(file)
    /\ (pc = "done" /\ \A r \in rendered : r.ok) =>
         /\ response.Error = <<>>
         /\ RenderedPaths = Eligible
         /\ Len(response.File) = Cardinality(Eligible)
         /\ {response.File[i] : i \in 1..Len(response.File)}
              = {OutputOf(p) : p \in Eligible}

C9_Witness ==
    /\ pc = "done"
    /\ \A r \in rendered : r.ok
    /\ Len(response.File) = 2
    /\ response.File[1].name = OutputNameOf("x.proto")
    /\ response.File[1].content # response.File[2].content

(***************************************************************************)
(* Properties of transformInput, under SpecPath.                           *)
(***************************************************************************)
\* the position of the last separator of s, 0 when it has none
LastSlash(s) ==
    IF \E i \in 1..Len(s) : s[i] = "/"
    THEN CHOOSE i \in 1..Len(s) : s[i] = "/" /\ \A j \in (i + 1)..Len(s) : s[j] # "/"
    ELSE 0
Hyphens(s) == {i \in 1..Len(s) : s[i] = "-"}

\* the first part of C8: the directory segments as they are, then the last
\* segment with every hyphen replaced, then the suffix
SplitReplaceJoin ==
    LET k == LastSlash(input)
        base == SubSeq(input, k + 1, Len(input))
    IN output = SubSeq(input, 1, k)
                  \o [i \in 1..Len(base) |-> IF base[i] = "-" THEN "_" ELSE base[i]]
                  \o Suffix

\* C8 as stated: the result is the input with its last segment rewritten and
\* the suffix appended; an input without hyphens only gains the suffix; an
\* input with several hyphens has all of them converted.
C8_Original ==
    pc = "transformed" =>
        /\ SplitReplaceJoin
        /\ Hyphens(input) = {} => output = input \o Suffix
        /\ Hyphens(output) = {}

\* C8, amended: the hyphens of the last segment are all converted, those of
\* the directory segments are kept.
C8_PathTransform ==
    pc = "transformed" =>
        /\ SplitReplaceJoin
        /\ Hyphens(input) = {} => output = input \o Suffix
        /\ Hyphens(output) = {i \in Hyphens(input) : i < LastSlash(input)}

C8_Witness ==
    /\ pc = "transformed"
    /\ Cardinality({i \in Hyphens(input) : i > LastSlash(input)}) >= 2
    /\ \E i \in Hyphens(input) : i < LastSlash(input)
    /\ Hyphens(output) # {}

====
